---- MODULE Spec2Model ----
(***************************************************************************)
(* A model of tournament.py: the standings table behind the store          *)
(* functions (registerPlayer, reportMatch, deleteMatches, deletePlayers,   *)
(* swissPairings) and the scheduling functions built on them               *)
(* (custom_tournament with even_players / even_rounds, round_robin).       *)
(*                                                                         *)
(* Every `with connect() as db:` block is one transaction, committed when  *)
(* the block is left, so each store function is one atomic step.  The SQL  *)
(* text of reportMatch is read the way the PostgreSQL scanner of the       *)
(* program's time reads it: "matches + 1WHERE id = k" is the number 1      *)
(* followed by the keyword WHERE.                                          *)
(***************************************************************************)
EXTENDS Integers, Sequences, FiniteSets, TLC

\* ---------------------------------------------------------------- bounds
\* Largest serial id the model lets the table hand out.
MaxId == 4
\* Largest matches count a direct reportMatch call may start from.
MaxMatches == 2
\* Longest players argument of custom_tournament and round_robin.
MaxPlayers == 3
\* Largest num_rounds argument of custom_tournament.
MaxRounds == 4
\* Most rows the table holds before the first scheduling call.
MaxPrior == 1
\* Most players of a Swiss tournament.
MaxSwiss == 4
\* Largest serial id handed out when the store functions are called directly.
MaxDirect == 3
\* Most rounds of a Swiss tournament.
MaxSwissRounds == 3

VARIABLES
    standings,   \* the standings table: id -> [name, wins, matches]
    nextId,      \* next value of the table's serial id sequence
    op,          \* the function called last (or running)
    pc,          \* where that call stands, or how it ended
    fetched,     \* swissPairings: the rows fetched (local players)
    pairs,       \* swissPairings: the list returned
    players,     \* custom_tournament / round_robin: argument players
    num_rounds,  \* custom_tournament: argument num_rounds
    ids,         \* custom_tournament: local ids (shuffled in place)
    i,           \* even_players / even_rounds: iterations done
    recorded,    \* history: reportMatch calls made by the running driver
    played,      \* history: {winner, loser} -> times the driver reported it
    pending      \* Swiss round: pairs of the round not yet reported

vars == <<standings, nextId, op, pc, fetched, pairs, players, num_rounds,
          ids, i, recorded, played, pending>>

\* ------------------------------------------------------------ list helpers
Odd(n) == n % 2 = 1
Even(n) == n % 2 = 0
Min(a, b) == IF a <= b THEN a ELSE b

\* every arrangement of the elements of S as a list
RECURSIVE Perms(_)
Perms(S) ==
    IF S = {}
    THEN {<<>>}
    ELSE UNION {{<<x>> \o p : p \in Perms(S \ {x})} : x \in S}

\* random.shuffle(x): x may end in any order
Shuffles(seq) ==
    {[k \in 1..Len(seq) |-> seq[p[k]]] : p \in Perms(1..Len(seq))}

\* seq[m:]  (Python slice from 0-based index m)
SliceFrom(seq, m) == SubSeq(seq, m + 1, Len(seq))
\* seq[:m]
SliceTo(seq, m) == SubSeq(seq, 1, Min(m, Len(seq)))

\* zip(a, b): stops with the shorter list
Zip(a, b) == [k \in 1..Min(Len(a), Len(b)) |-> <<a[k], b[k]>>]

\* islice(seq, 0, None, 2): items 0, 2, 4, ...
IsliceStep2(seq) == [k \in 1..((Len(seq) + 1) \div 2) |-> seq[2 * k - 1]]

\* ------------------------------------------------------------- the table
\* the names handed to the program, one character each as in "ABCDEFGHIJ"
Alphabet == <<"A", "<", "C", "&", "E", "F", "G", "H">>

\* bleach.clean(name): the characters of markup are escaped
Clean(name) ==
    CASE name = "<" -> "&lt;"
      [] name = ">" -> "&gt;"
      [] name = "&" -> "&amp;"
      [] OTHER -> name

\* a row as INSERT INTO standings (name) leaves it: the other columns
\* take the table's defaults
NewRow(name) == [name |-> name, wins |-> 0, matches |-> 0]

EmptyTable == <<>>

\* DELETE FROM standings;
DeletePlayersStore(st) == EmptyTable

\* UPDATE standings SET wins = 0, matches = 0;
DeleteMatchesStore(st) ==
    [x \in DOMAIN st |-> [st[x] EXCEPT !.wins = 0, !.matches = 0]]

\* INSERT INTO standings (name) VALUES (clean(name)); the row gets serial id
RegisterPlayerStore(st, id, name) ==
    [x \in (DOMAIN st) \cup {id} |->
        IF x = id THEN NewRow(Clean(name)) ELSE st[x]]

\* faulty variant: the winner's matches column is left as it was
WinnerUpdateNoMatch(st, winner) ==
    [x \in DOMAIN st |->
        IF x = winner THEN [st[x] EXCEPT !.wins = @ + 1] ELSE st[x]]

\* UPDATE ... SET wins = wins + 1, matches = matches + 1 WHERE id = winner
UpdateWinner(st, winner) ==
    [x \in DOMAIN st |->
        IF x = winner
        THEN [st[x] EXCEPT !.wins = @ + 1, !.matches = @ + 1]
        ELSE st[x]]

\* UPDATE ... SET matches = matches + 1 WHERE id = loser
UpdateLoser(st, loser) ==
    [x \in DOMAIN st |->
        IF x = loser THEN [st[x] EXCEPT !.matches = @ + 1] ELSE st[x]]

\* reportMatch(winner, loser): the two UPDATEs of one transaction
ReportMatchStore(st, winner, loser) ==
    UpdateLoser(UpdateWinner(st, winner), loser)

\* SELECT ... FROM standings ORDER BY wins DESC: ties come in any order
OrderedByWins(st) ==
    {p \in Perms(DOMAIN st) :
        \A a, b \in 1..Len(p) : a < b => st[p[a]].wins >= st[p[b]].wins}

\* SELECT id, name FROM standings ORDER BY wins DESC; c.fetchall()
FetchIdName(st) ==
    {[k \in 1..Len(p) |-> <<p[k], st[p[k]].name>>] : p \in OrderedByWins(st)}

\* SELECT id FROM standings; the rows come in any order
SelectIds(st) == Perms(DOMAIN st)

\* --------------------------------------------------------- swissPairings
Flatten(zipped) ==
    [k \in 1..Len(zipped) |->
        <<zipped[k][1][1], zipped[k][1][2], zipped[k][2][1], zipped[k][2][2]>>]

\* faulty variant: the islice step is missing
SwissPairsNoSkip(rows) == Flatten(Zip(rows, SliceFrom(rows, 1)))

\* faulty variant: the list is zipped with its rotation, as in even_rounds
SwissPairsCyclic(rows) ==
    IsliceStep2(Flatten(Zip(rows, SliceFrom(rows, 1) \o SliceTo(rows, 1))))

\* zip(players, players[1:]) and then every second item of it
SwissPairs(rows) == IsliceStep2(Flatten(Zip(rows, SliceFrom(rows, 1))))

\* ------------------------------------------------------ store operations
\* Spec: the store functions called directly, in any order.
DriverVars ==
    <<fetched, pairs, players, num_rounds, ids, i, recorded, played, pending>>

\* the name is the next one of Alphabet (names play no part in any update)
RegisterPlayer ==
    /\ nextId <= MaxDirect
    /\ standings' = RegisterPlayerStore(standings, nextId, Alphabet[nextId])
    /\ nextId' = nextId + 1
    /\ op' = "registerPlayer"
    /\ pc' = "Completed"
    /\ UNCHANGED DriverVars

\* winner and loser are whatever the caller passes: a registered id, an id
\* of no row (0), the same id twice
ReportMatch ==
    /\ \E winner, loser \in 0..MaxDirect :
          /\ \A x \in {winner, loser} \cap DOMAIN standings :
                standings[x].matches < MaxMatches
          /\ standings' = ReportMatchStore(standings, winner, loser)
    /\ op' = "reportMatch"
    /\ pc' = "Completed"
    /\ UNCHANGED nextId
    /\ UNCHANGED DriverVars

DeleteMatches ==
    /\ standings' = DeleteMatchesStore(standings)
    /\ op' = "deleteMatches"
    /\ pc' = "Completed"
    /\ UNCHANGED nextId
    /\ UNCHANGED DriverVars

DeletePlayers ==
    /\ standings' = DeletePlayersStore(standings)
    /\ op' = "deletePlayers"
    /\ pc' = "Completed"
    /\ UNCHANGED nextId
    /\ UNCHANGED DriverVars

Init ==
    /\ standings = EmptyTable
    /\ nextId = 1
    /\ op = "none"
    /\ pc = "idle"
    /\ fetched = <<>>
    /\ pairs = <<>>
    /\ players = <<>>
    /\ num_rounds = 0
    /\ ids = <<>>
    /\ i = 0
    /\ recorded = 0
    /\ played = <<>>
    /\ pending = <<>>

Next ==
    \/ RegisterPlayer
    \/ ReportMatch
    \/ DeleteMatches
    \/ DeletePlayers

Spec == Init /\ [][Next]_vars


\* ------------------------------------------------- the scheduling drivers
Resting == {"idle", "Completed", "Rejected"}

\* the players argument: a string, registered character by character
PlayerLists == {SubSeq(Alphabet, 1, n) : n \in 0..MaxPlayers}

\* for name in players: registerPlayer(name)
RECURSIVE RegisterAll(_, _, _)
RegisterAll(st, id, names) ==
    IF names = <<>>
    THEN st
    ELSE RegisterAll(RegisterPlayerStore(st, id, Head(names)), id + 1,
                     Tail(names))

\* faulty variant: deletePlayers() is not called
RegisterAllKeepingRows(st, id, names) == RegisterAll(st, id, names)

\* deletePlayers(), then the registrations
FreshTable(st, id, names) == RegisterAll(DeletePlayersStore(st), id, names)

\* for pair in prs: reportMatch(*pair)
RECURSIVE ReportAll(_, _)
ReportAll(st, prs) ==
    IF prs = <<>>
    THEN st
    ELSE ReportAll(ReportMatchStore(st, Head(prs)[1], Head(prs)[2]), Tail(prs))

\* the history of reported pairs, winner and loser taken as a set
AddOne(b, p) ==
    [x \in (DOMAIN b) \cup {p} |->
        IF x = p THEN (IF p \in DOMAIN b THEN b[p] + 1 ELSE 1) ELSE b[x]]

RECURSIVE AddPlayed(_, _)
AddPlayed(b, prs) ==
    IF prs = <<>>
    THEN b
    ELSE AddPlayed(AddOne(b, {Head(prs)[1], Head(prs)[2]}), Tail(prs))

\* shuffle(pair) on each two-item list: flips[k] says whether pair k swapped
Orient(prs, flips) ==
    [k \in 1..Len(prs) |->
        IF flips[k] THEN <<prs[k][2], prs[k][1]>> ELSE prs[k]]

\* faulty variant: the elif is a plain else
StrategyNoOddCheck(n, rounds) ==
    IF n % 2 = 0 THEN "even_players" ELSE "even_rounds"

\* the branch custom_tournament takes
Strategy(n, rounds) ==
    IF n % 2 = 0 THEN "even_players"
    ELSE IF rounds % 2 = 0 THEN "even_rounds"
    ELSE "Rejected"

\* how often the loop of the branch runs
Iterations(strategy, rounds) ==
    CASE strategy = "even_players" -> rounds
      [] strategy = "even_rounds" -> rounds \div 2
      [] OTHER -> 0

\* faulty variant: the second half starts one item late
EvenPlayersPairsOffByOne(l) ==
    Zip(SliceTo(l, Len(l) \div 2), SliceFrom(l, Len(l) \div 2 + 1))

\* zip(ids[:mid], ids[mid:])
EvenPlayersPairs(l) ==
    Zip(SliceTo(l, Len(l) \div 2), SliceFrom(l, Len(l) \div 2))

\* faulty variant: the last player is not paired with the first
EvenRoundsPairsNoWrap(l) == Zip(l, SliceFrom(l, 1))

\* zip(ids, ids[1:] + ids[:1])
EvenRoundsPairs(l) == Zip(l, SliceFrom(l, 1) \o SliceTo(l, 1))

\* faulty variant: itertools.permutations(l, 2), every ordered pair
Permutations2(l) ==
    [k \in 1..(Len(l) * (Len(l) - 1)) |->
        LET a == ((k - 1) \div (Len(l) - 1)) + 1
            r == ((k - 1) % (Len(l) - 1)) + 1
        IN  <<l[a], l[IF r < a THEN r ELSE r + 1]>>]

\* itertools.combinations(ids, 2): index pairs a < b in lexicographic order
RECURSIVE Combinations2(_)
Combinations2(l) ==
    IF Len(l) < 2
    THEN <<>>
    ELSE [k \in 1..(Len(l) - 1) |-> <<l[1], l[k + 1]>>] \o Combinations2(Tail(l))

\* custom_tournament(players, num_rounds) up to the first loop iteration
CustomTournament ==
    /\ pc \in Resting
    /\ \E names \in PlayerLists, rounds \in 0..MaxRounds :
          /\ nextId + Len(names) - 1 <= MaxId
          /\ players' = names
          /\ num_rounds' = rounds
          /\ nextId' = nextId + Len(names)
          /\ standings' = FreshTable(standings, nextId, names)
          /\ \E sel \in SelectIds(standings') :
                LET strategy == Strategy(Len(sel), rounds)
                    running == Iterations(strategy, rounds) > 0
                IN  /\ pc' = IF strategy = "Rejected" THEN "Rejected"
                             ELSE IF running THEN strategy
                             ELSE "Completed"
                    /\ ids' = IF running THEN sel ELSE <<>>
    /\ op' = "custom_tournament"
    /\ i' = 0
    /\ recorded' = 0
    /\ played' = <<>>
    /\ UNCHANGED <<fetched, pairs, pending>>

\* one iteration of even_players' loop; the last one returns
EvenPlayersRound ==
    /\ pc = "even_players"
    /\ \E sh \in Shuffles(ids) :
          LET prs == EvenPlayersPairs(sh)
              last == i + 1 = num_rounds
          IN  /\ standings' = ReportAll(standings, prs)
              /\ recorded' = recorded + Len(prs)
              /\ played' = AddPlayed(played, prs)
              /\ ids' = IF last THEN <<>> ELSE sh
              /\ pc' = IF last THEN "Completed" ELSE pc
    /\ i' = i + 1
    /\ UNCHANGED <<nextId, op, fetched, pairs, players, num_rounds, pending>>

\* one iteration of even_rounds' loop; the last one returns
EvenRoundsRound ==
    /\ pc = "even_rounds"
    /\ \E sh \in Shuffles(ids) :
          \E flips \in [1..Len(EvenRoundsPairs(sh)) -> BOOLEAN] :
             LET prs == Orient(EvenRoundsPairs(sh), flips)
                 last == i + 1 = num_rounds \div 2
             IN  /\ standings' = ReportAll(standings, prs)
                 /\ recorded' = recorded + Len(prs)
                 /\ played' = AddPlayed(played, prs)
                 /\ ids' = IF last THEN <<>> ELSE sh
                 /\ pc' = IF last THEN "Completed" ELSE pc
    /\ i' = i + 1
    /\ UNCHANGED <<nextId, op, fetched, pairs, players, num_rounds, pending>>

\* round_robin(players), whole
RoundRobin ==
    /\ pc \in Resting
    /\ \E names \in PlayerLists :
          /\ nextId + Len(names) - 1 <= MaxId
          /\ players' = names
          /\ nextId' = nextId + Len(names)
          /\ \E sel \in SelectIds(FreshTable(standings, nextId, names)) :
                \E flips \in [1..Len(Combinations2(sel)) -> BOOLEAN] :
                   LET prs == Orient(Combinations2(sel), flips)
                   IN  /\ standings' =
                             ReportAll(FreshTable(standings, nextId, names), prs)
                       /\ recorded' = Len(prs)
                       /\ played' = AddPlayed(<<>>, prs)
    /\ op' = "round_robin"
    /\ pc' = "Completed"
    /\ num_rounds' = 0
    /\ ids' = <<>>
    /\ i' = 0
    /\ UNCHANGED <<fetched, pairs, pending>>

\* the table before the first scheduling call: up to MaxPrior rows left by
\* earlier registerPlayer and reportMatch calls
PriorRows ==
    {r \in [name : {Clean(Alphabet[1])}, wins : 0..MaxMatches,
            matches : 0..MaxMatches] : r.wins <= r.matches}

PriorTables == UNION {[1..k -> PriorRows] : k \in 0..MaxPrior}

SchedInit ==
    /\ standings \in PriorTables
    /\ nextId = Len(standings) + 1
    /\ op = "none"
    /\ pc = "idle"
    /\ fetched = <<>>
    /\ pairs = <<>>
    /\ players = <<>>
    /\ num_rounds = 0
    /\ ids = <<>>
    /\ i = 0
    /\ recorded = 0
    /\ played = <<>>
    /\ pending = <<>>

SchedNext ==
    \/ CustomTournament
    \/ EvenPlayersRound
    \/ EvenRoundsRound
    \/ RoundRobin

SpecSched == SchedInit /\ [][SchedNext]_vars

\* ------------------------------------------------------ a Swiss tournament
\* SpecSwiss: n registered players with no matches yet; each round is one
\* swissPairings call and then one reportMatch per pair it returned.
SwissPairings ==
    /\ pending = <<>>
    /\ \A x \in DOMAIN standings : standings[x].matches < MaxSwissRounds
    /\ \E rows \in FetchIdName(standings) :
          /\ fetched' = rows
          /\ pairs' = SwissPairs(rows)
          /\ pending' = SwissPairs(rows)
    /\ op' = "swissPairings"
    /\ pc' = "Completed"
    /\ UNCHANGED <<standings, nextId, players, num_rounds, ids, i, recorded,
                   played>>

\* the next pair of the round is played; either player may win
SwissReport ==
    /\ pending # <<>>
    /\ \E flip \in BOOLEAN :
          LET a == Head(pending)[1]
              b == Head(pending)[3]
              winner == IF flip THEN b ELSE a
              loser == IF flip THEN a ELSE b
          IN  /\ standings' = ReportMatchStore(standings, winner, loser)
              /\ played' = AddOne(played, {winner, loser})
    /\ recorded' = recorded + 1
    /\ pending' = Tail(pending)
    /\ op' = "reportMatch"
    /\ pc' = "Completed"
    /\ UNCHANGED <<nextId, fetched, pairs, players, num_rounds, ids, i>>

SwissInit ==
    /\ \E n \in 0..MaxSwiss :
          /\ standings = RegisterAll(EmptyTable, 1, SubSeq(Alphabet, 1, n))
          /\ nextId = n + 1
    /\ op = "registerPlayer"
    /\ pc = "Completed"
    /\ fetched = <<>>
    /\ pairs = <<>>
    /\ players = <<>>
    /\ num_rounds = 0
    /\ ids = <<>>
    /\ i = 0
    /\ recorded = 0
    /\ played = <<>>
    /\ pending = <<>>

SwissNext ==
    \/ SwissPairings
    \/ SwissReport

SpecSwiss == SwissInit /\ [][SwissNext]_vars


\* ================================================================ claims
RowOk(r) == r.matches >= r.wins /\ r.wins >= 0

\* the ids of pair k of a swissPairings result
PairIds(prs, k) == {prs[k][1], prs[k][3]}

\* the ids custom_tournament / round_robin registered for this call
CallIds == (nextId - Len(players))..(nextId - 1)

\* ---- SpecSched

\* C1: an odd number of players with an odd number of rounds ends the call
\* in Rejected, and reportMatch was not called once.
C1_OddOddRejected ==
    (op = "custom_tournament" /\ Odd(Len(players)) /\ Odd(num_rounds))
        => (pc = "Rejected" /\ recorded = 0 /\ played = <<>>)

C1_Witness ==
    /\ op = "custom_tournament"
    /\ pc = "Rejected"
    /\ Len(players) = 3
    /\ num_rounds = 3

\* C2 as stated: a rejected call leaves the table as it was before the call
\* (same registered competitors, same wins and matches).
C2_StoreUnchanged ==
    [][(op' = "custom_tournament" /\ pc' = "Rejected")
          => standings' = standings]_vars

\* C2 amended: a rejected call has made no reportMatch call, and it leaves
\* the table holding exactly the players it was given, newly registered with
\* wins = 0 and matches = 0; the rows of before the call are gone.
C2_RejectedLeavesFreshTable ==
    (op = "custom_tournament" /\ pc = "Rejected")
        => /\ recorded = 0
           /\ DOMAIN standings = CallIds
           /\ \A x \in DOMAIN standings :
                 standings[x] =
                    [name |-> Clean(players[x - (nextId - Len(players)) + 1]),
                     wins |-> 0, matches |-> 0]

C2_Witness ==
    /\ op = "custom_tournament"
    /\ pc = "Rejected"
    /\ Len(players) = 3
    /\ 1 \notin DOMAIN standings

\* C3: with an even number n of players, a completed call has made exactly
\* num_rounds * n/2 reportMatch calls and each of the n players has
\* matches = num_rounds, whatever the table held before.
C3_EvenPlayersBalanced ==
    (op = "custom_tournament" /\ pc = "Completed" /\ Even(Len(players)))
        => /\ recorded = num_rounds * (Len(players) \div 2)
           /\ DOMAIN standings = CallIds
           /\ \A x \in DOMAIN standings : standings[x].matches = num_rounds

C3_Witness ==
    /\ op = "custom_tournament"
    /\ pc = "Completed"
    /\ Len(players) = 2
    /\ num_rounds = 3
    /\ recorded = 3
    /\ 1 \notin DOMAIN standings

\* C4: with an odd number n of players and an even num_rounds, every
\* iteration of even_rounds adds 2 to each player's matches, and a completed
\* call leaves each of the n players with matches = num_rounds.
C4_EvenRoundsBalanced ==
    (op = "custom_tournament" /\ Odd(Len(players)) /\ Even(num_rounds))
        => /\ pc \in {"even_rounds", "Completed"}
           /\ DOMAIN standings = CallIds
           /\ \A x \in DOMAIN standings : standings[x].matches = 2 * i
           /\ pc = "Completed" =>
                 \A x \in DOMAIN standings : standings[x].matches = num_rounds

C4_Witness ==
    /\ op = "custom_tournament"
    /\ pc = "Completed"
    /\ Len(players) = 3
    /\ num_rounds = 4
    /\ \A x \in DOMAIN standings : standings[x].matches = 4

\* C5: round_robin makes n(n-1)/2 reportMatch calls, exactly one for each
\* set of two different players and none for a player against itself, and
\* every player ends with matches = n - 1.
C5_RoundRobinAllPairsOnce ==
    (op = "round_robin" /\ pc = "Completed")
        => /\ recorded = (Len(players) * (Len(players) - 1)) \div 2
           /\ DOMAIN standings = CallIds
           /\ DOMAIN played =
                 {p \in SUBSET (DOMAIN standings) : Cardinality(p) = 2}
           /\ \A p \in DOMAIN played : played[p] = 1
           /\ \A x \in DOMAIN standings :
                 standings[x].matches = Len(players) - 1

C5_Witness ==
    /\ op = "round_robin"
    /\ pc = "Completed"
    /\ Len(players) = 3
    /\ recorded = 3

\* C9 as stated: no scheduling function ever reports a match of a player
\* against itself (every reported pair has two different ids).
C9_NoSelfMatch == \A p \in DOMAIN played : Cardinality(p) = 2

\* ---- SpecSwiss

\* C6: on an even number n of rows, fetched in descending order of wins,
\* swissPairings returns n/2 pairs, pair k made of the rows at (0-based)
\* positions 2k and 2k+1, and every player is in exactly one pair.
C6_SwissAdjacentPairs ==
    (op = "swissPairings" /\ Even(Len(fetched)))
        => /\ \A a, b \in 1..Len(fetched) :
                 a < b => standings[fetched[a][1]].wins
                             >= standings[fetched[b][1]].wins
           /\ Len(pairs) = Len(fetched) \div 2
           /\ \A k \in 1..Len(pairs) :
                 pairs[k] = <<fetched[2 * k - 1][1], fetched[2 * k - 1][2],
                              fetched[2 * k][1], fetched[2 * k][2]>>
           /\ \A x \in DOMAIN standings :
                 Cardinality({k \in 1..Len(pairs) : x \in PairIds(pairs, k)}) = 1

C6_Witness ==
    /\ op = "swissPairings"
    /\ Len(fetched) = 4
    /\ Len(pairs) = 2
    /\ standings[fetched[1][1]].wins > standings[fetched[4][1]].wins

\* C7 as stated: with an odd number of registered players swissPairings
\* ends in an InvalidPairingInput error.
C7_OddInputSurfaced ==
    (op = "swissPairings" /\ Odd(Len(fetched)))
        => pc = "InvalidPairingInput"

\* C7 amended: with an odd number n of registered players swissPairings
\* returns normally (n-1)/2 pairs, pair k made of the rows at positions 2k
\* and 2k+1; the last-ranked player is in no pair and no error is raised.
C7_OddInputDropsLast ==
    (op = "swissPairings" /\ Odd(Len(fetched)))
        => /\ pc = "Completed"
           /\ Len(pairs) = (Len(fetched) - 1) \div 2
           /\ \A k \in 1..Len(pairs) :
                 pairs[k] = <<fetched[2 * k - 1][1], fetched[2 * k - 1][2],
                              fetched[2 * k][1], fetched[2 * k][2]>>
           /\ \A k \in 1..Len(pairs) :
                 fetched[Len(fetched)][1] \notin PairIds(pairs, k)

C7_Witness ==
    /\ op = "swissPairings"
    /\ Len(fetched) = 3
    /\ Len(pairs) = 1
    /\ recorded > 0

\* C10 as stated: in a Swiss tournament on an even number of players,
\* swissPairings never returns two players who have already played each
\* other in an earlier round.  It is stated for four players or more: with
\* two players a second round has only the first round's pair to return.
C10_NoRematch ==
    (op = "swissPairings" /\ Even(Len(fetched)) /\ Len(fetched) >= 4)
        => \A k \in 1..Len(pairs) : PairIds(pairs, k) \notin DOMAIN played

\* C10 amended: what swissPairings avoids is a repeat within one round: in
\* the list one call returns, on an even number of players, no player is
\* paired with itself and no two pairs share a player.  (Earlier rounds are
\* not looked at: a pair that has played may be returned again.)
C10_NoRepeatWithinRound ==
    (op = "swissPairings" /\ Even(Len(fetched)))
        => /\ \A k \in 1..Len(pairs) : pairs[k][1] # pairs[k][3]
           /\ \A j, k \in 1..Len(pairs) :
                 j # k => PairIds(pairs, j) \cap PairIds(pairs, k) = {}

C10_Witness ==
    /\ op = "swissPairings"
    /\ Len(fetched) = 4
    /\ Len(pairs) = 2
    /\ played # <<>>

\* ---- Spec

\* C8: every row has matches >= wins >= 0 in every state the store
\* functions can reach, and also in the state between the two UPDATEs of a
\* reportMatch call made from such a state, whatever winner it is given.
C8_MatchesGeWins ==
    /\ \A x \in DOMAIN standings : RowOk(standings[x])
    /\ \A winner \in 0..MaxDirect :
          \A x \in DOMAIN standings : RowOk(UpdateWinner(standings, winner)[x])

C8_Witness ==
    /\ op = "reportMatch"
    /\ \E x, y \in DOMAIN standings :
          /\ x # y
          /\ standings[x].wins = 1
          /\ standings[x].matches = 1
          /\ standings[y].wins = 0
          /\ standings[y].matches = 1

====
